---- MODULE Spec2Model ----
(***************************************************************************)
(* Model of crates/typst/src/engine.rs: the Route chain (root, insert,     *)
(* extend, track, increase, decrease, contains, within, exceeding) and     *)
(* Engine::delayed.                                                        *)
(*                                                                         *)
(* A Route value is a frame; the frames that exist are kept in the         *)
(* sequence `frames`, and a Tracked<Route> handle is the index of the      *)
(* frame it refers to (reference identity).  0 stands for Option::None in  *)
(* `outer`, NoId for Option::None in `id`.  `running` holds the within     *)
(* calls that are in progress when calls are taken one access at a time.   *)
(***************************************************************************)
EXTENDS Integers, Sequences, FiniteSets, TLC

\* ---------------------------------------------------------------- bounds
MaxFrames == 3      \* frames alive at once (Spec, SpecFree)
MaxPend == 1        \* increase/decrease pairs open at once, over all frames
MaxLimit == 2       \* within is queried at 0..MaxLimit and at USIZE_MAX
Width == 8          \* bits of usize in the model
MaxIdFrames == 3    \* frames alive at once (SpecIds)
MaxIdLimit == 1     \* within is queried at 0..MaxIdLimit (SpecIds)
MaxDeep == 66       \* frames alive at once (SpecDeep)
MaxSink == 3        \* batches in the tracer's deferred bucket
MaxCount == 1       \* cap on the locator and on the sampled values
MaxProcs == 2       \* within calls in progress at once (SpecConc)
MaxConcFrames == 3  \* frames alive at once (SpecConc)
MaxConcLimit == 2   \* within is called with 0..MaxConcLimit (SpecConc)

\* ------------------------------------------------------------- constants
MAX_DEPTH == 64

USIZE_MAX == 2^Width - 1

NoId == "none"
FileIds == {"A"}
Limits == (0..MaxLimit) \cup {USIZE_MAX}
IdFileIds == {"A", "B"}
IdLimits == 0..MaxIdLimit
Procs == 1..MaxProcs
ConcLimits == 0..MaxConcLimit

VARIABLES frames, tracer, locator, ret, running

vars == <<frames, tracer, locator, ret, running>>

\* ------------------------------------------------------------ usize ops
\* usize::wrapping_add
wrapping_add(a, b) == (a + b) % (2^Width)

\* usize::saturating_add
saturating_add(a, b) == IF a + b > USIZE_MAX THEN USIZE_MAX ELSE a + b

\* ------------------------------------------------------------ the chain
Handles == 1..Len(frames)

\* Route::root
root ==
  [outer |-> 0, id |-> NoId, len |-> 0, upper |-> 0,
   src |-> 0, kind |-> "root", pend |-> 0]

\* Route::insert; src is the frame the handle `outer` was borrowed from
insert(outer, id, src) ==
  [outer |-> outer, id |-> id, len |-> 0, upper |-> USIZE_MAX,
   src |-> src, kind |-> "insert", pend |-> 0]

\* extend with the len insert gives
extend_flat(outer, src) ==
  [outer |-> outer, id |-> NoId, len |-> 0, upper |-> USIZE_MAX,
   src |-> src, kind |-> "extend", pend |-> 0]

\* Route::extend
extend(outer, src) ==
  [outer |-> outer, id |-> NoId, len |-> 1, upper |-> USIZE_MAX,
   src |-> src, kind |-> "extend", pend |-> 0]

\* track without the skip of a link that contributes nothing
track_self(fr, f) == f

\* Route::track
track(fr, f) ==
  IF fr[f].outer # 0 /\ fr[f].id = NoId /\ fr[f].len = 0
  THEN fr[f].outer
  ELSE f

\* contains that looks at the frame's own id only
contains_own(fr, f, id) == fr[f].id = id

\* Route::contains
RECURSIVE contains(_, _, _)
contains(fr, f, id) ==
  \/ fr[f].id = id
  \/ IF fr[f].outer = 0 THEN FALSE ELSE contains(fr, fr[f].outer, id)

\* Route::contains, line 132: the frames whose id is compared, innermost
\* first; the closure on the parent runs only when the comparison fails
RECURSIVE lookups(_, _, _)
lookups(fr, f, id) ==
  IF fr[f].id = id \/ fr[f].outer = 0
  THEN <<f>>
  ELSE <<f>> \o lookups(fr, fr[f].outer, id)

\* the fast accept without the frame's own len
FastAccept_nolen(upper, len, depth) == upper <= depth

\* Route::within, line 137: the fast accept
FastAccept(upper, len, depth) == saturating_add(upper, len) <= depth

\* the fast reject with the comparison turned round
FastReject_flipped(len, depth) == depth > len

\* the fast reject that also rejects a budget equal to len
FastReject_strict(len, depth) == depth <= len

\* a match without the arm of line 142
FastReject_never(len, depth) == FALSE

\* Route::within, line 142: the fast reject
FastReject(len, depth) == depth < len

\* Route::within, line 144: the budget handed to the parent
OuterDepth(len, depth) == depth - len

\* the write without the comparison with the current cell
Tighten_always(within, upper, depth) == within

\* the write made whatever the parent answered
Tighten_onfalse(within, upper, depth) == depth < upper

\* Route::within, line 145: when the cell is written
Tighten(within, upper, depth) == within /\ depth < upper

\* Route::within, line 146: what is written
Tightened(len, depth) == depth

\* a frame without a parent that compares its own len with the budget
NoOuter_checked(len, depth) == len <= depth

\* Route::within, line 150: a frame without a parent
NoOuter(len, depth) == TRUE

\* Route::within, lines 137-143: the call on f with this budget goes on to
\* call the parent (no fast accept, a parent, no fast reject)
Descends(fr, f, depth) ==
  /\ ~FastAccept(fr[f].upper, fr[f].len, depth)
  /\ fr[f].outer # 0
  /\ ~FastReject(fr[f].len, depth)

\* a recursion that calls the frame itself instead of the parent
calls_self(fr, f, depth) ==
  IF Descends(fr, f, depth)
  THEN <<[f |-> f, depth |-> depth], [f |-> f, depth |-> depth]>>
  ELSE <<[f |-> f, depth |-> depth]>>

\* Route::within, line 144: the calls the recursion makes, innermost first,
\* each with the frame it is made on and the budget it is given
RECURSIVE calls(_, _, _)
calls(fr, f, depth) ==
  IF Descends(fr, f, depth)
  THEN <<[f |-> f, depth |-> depth]>>
         \o calls(fr, fr[f].outer, OuterDepth(fr[f].len, depth))
  ELSE <<[f |-> f, depth |-> depth]>>

\* Route::within, lines 137-151: what the last call of the recursion returns
Answer(fr, f, depth) ==
  CASE FastAccept(fr[f].upper, fr[f].len, depth) -> TRUE
    [] fr[f].outer = 0 -> NoOuter(fr[f].len, depth)
    [] OTHER -> FALSE

\* Route::within, lines 145-148: every call that went on to its parent gets
\* the parent's answer back, writes its frame's cell when Tighten says so, and
\* returns that answer; a frame is on the way to the root once
Unwind(fr, cs, ans) ==
  [g \in DOMAIN fr |->
     LET mine == {i \in 1..(Len(cs) - 1) : cs[i].f = g}
     IN IF \E i \in mine : Tighten(ans, fr[g].upper, cs[i].depth)
        THEN [fr[g] EXCEPT !.upper =
                Tightened(fr[g].len, cs[CHOOSE i \in mine : TRUE].depth)]
        ELSE fr[g]]

\* Route::within.  The result carries the returned boolean, the frames after
\* the call (upper cells are written through the shared handle) and the
\* frames visited, innermost first.  The recursion is laid out as the calls
\* going up and the returns coming back.
within(fr, f, depth) ==
  LET cs == calls(fr, f, depth)
      ans == Answer(fr, cs[Len(cs)].f, cs[Len(cs)].depth)
  IN [ret |-> ans, fr |-> Unwind(fr, cs, ans),
      vis |-> [i \in 1..Len(cs) |-> cs[i].f]]

\* exceeding without the negation
exceeding_plain(fr, f) == within(fr, f, MAX_DEPTH)

\* Route::exceeding
exceeding(fr, f) == [within(fr, f, MAX_DEPTH) EXCEPT !.ret = ~@]

\* A frame is borrowed while a live frame was built from its track() handle.
Borrowed(fr, f) == \E g \in 1..Len(fr) : fr[g].src = f

\* ----------------------------------------------------------- the engine
\* Tracer::delay
TracerDelay(t, errors) == [t EXCEPT !.delayed = Append(@, errors)]

Values == {"v1", "v2"}
Batches == {"e1", "e2"}
Default == "default"
Ok(v) == [ok |-> TRUE, value |-> v, errors |-> "-"]
Err(e) == [ok |-> FALSE, value |-> "-", errors |-> e]
StepResults == {Ok(v) : v \in Values} \cup {Err(e) : e \in Batches}

\* delayed that records the batch and hands back no placeholder
DelayedValue_raw(res) == IF res.ok THEN res.value ELSE res.errors

\* Engine::delayed, lines 38-44: the value returned
DelayedValue(res) == IF res.ok THEN res.value ELSE Default

\* Engine::delayed, lines 38-44: the tracer after the match
DelayedTracer(t, res) == IF res.ok THEN t ELSE TracerDelay(t, res.errors)

\* ret after a call other than delayed
NoRet == [op |-> "none"]

\* a caller that has no within call in progress
Idle == [st |-> "idle", f |-> 0, depth |-> 0, alone |-> FALSE,
         stack |-> << >>, val |-> FALSE]

Init ==
  /\ frames = << >>
  /\ ret = NoRet
  /\ tracer = [delayed |-> << >>, values |-> 0]
  /\ locator = 0
  /\ running = [p \in Procs |-> Idle]

\* ------------------------------------------------------------- actions
\* A call returns its value to the caller; what a call returns in a state is
\* the operator above applied to that state, and the action is the effect of
\* the call on the state.  The new frame of insert/extend is built by the
\* innermost call, from the handle its own frame's track() gives.
Top == Len(frames)

Root(max) ==
  /\ Len(frames) < max
  /\ frames' = Append(frames, root)
  /\ ret' = NoRet
  /\ UNCHANGED <<tracer, locator, running>>

Insert(p, id, max) ==
  /\ Len(frames) < max
  /\ p \in Handles
  /\ frames' = Append(frames, insert(track(frames, p), id, p))
  /\ ret' = NoRet
  /\ UNCHANGED <<tracer, locator, running>>

Extend(p, max) ==
  /\ Len(frames) < max
  /\ p \in Handles
  /\ frames' = Append(frames, extend(track(frames, p), p))
  /\ ret' = NoRet
  /\ UNCHANGED <<tracer, locator, running>>

\* The frame goes out of scope.  Frames are locals of nested calls and go in
\* the reverse order of their construction, so the newest one goes first; no
\* frame holds a handle borrowed from it.
Drop(f) ==
  /\ f = Len(frames)
  /\ ~Borrowed(frames, f)
  /\ frames' = SubSeq(frames, 1, Len(frames) - 1)
  /\ ret' = NoRet
  /\ UNCHANGED <<tracer, locator, running>>

Track(f) ==
  /\ f \in Handles
  /\ track(frames, f) \in Handles
  /\ ret' = NoRet
  /\ UNCHANGED <<frames, tracer, locator, running>>

\* The increase/decrease pairs that are open, over all frames.
RECURSIVE Pending(_, _)
Pending(fr, n) == IF n = 0 THEN 0 ELSE fr[n].pend + Pending(fr, n - 1)

\* increase that also forgets the bound the frame has cached
Increase_reset(f) ==
  /\ f \in Handles
  /\ ~Borrowed(frames, f)
  /\ Pending(frames, Len(frames)) < MaxPend
  /\ frames' = [frames EXCEPT ![f].len = @ + 1, ![f].pend = @ + 1,
                              ![f].upper = USIZE_MAX]
  /\ ret' = NoRet
  /\ UNCHANGED <<tracer, locator, running>>

\* Route::increase (&mut self: the frame is not borrowed)
Increase(f) ==
  /\ f \in Handles
  /\ ~Borrowed(frames, f)
  /\ Pending(frames, Len(frames)) < MaxPend
  /\ frames' = [frames EXCEPT ![f].len = @ + 1, ![f].pend = @ + 1]
  /\ ret' = NoRet
  /\ UNCHANGED <<tracer, locator, running>>

\* Route::decrease (&mut self); len = 0 would underflow and is not taken here
Decrease(f) ==
  /\ f \in Handles
  /\ ~Borrowed(frames, f)
  /\ frames[f].len > 0
  /\ frames' = [frames EXCEPT ![f].len = @ - 1,
                              ![f].pend = IF @ > 0 THEN @ - 1 ELSE 0]
  /\ ret' = NoRet
  /\ UNCHANGED <<tracer, locator, running>>

\* decrease as the closing half of an increase/decrease pair
DecreasePaired(f) ==
  /\ f \in Handles
  /\ frames[f].pend > 0
  /\ Decrease(f)

Contains(f, id) ==
  /\ f \in Handles
  /\ contains(frames, f, id) \in BOOLEAN
  /\ ret' = NoRet
  /\ UNCHANGED <<frames, tracer, locator, running>>

Within(f, depth) ==
  /\ f \in Handles
  /\ frames' = within(frames, f, depth).fr
  /\ ret' = NoRet
  /\ UNCHANGED <<tracer, locator, running>>

Exceeding(f) ==
  /\ f \in Handles
  /\ frames' = exceeding(frames, f).fr
  /\ ret' = NoRet
  /\ UNCHANGED <<tracer, locator, running>>

\* Engine::delayed.  The step f(self) is any closure over the engine: it may
\* itself delay a batch, record a sampled value, take an identity from the
\* locator or increase the engine's route, and it returns Ok(value) or
\* Err(errors).  ret keeps what the last call returned when that call was
\* delayed, with the context as the step left it.
Delayed(nested, sampled, located, deeper, res) ==
  LET t1 == [delayed |-> tracer.delayed \o nested,
             values |-> tracer.values + sampled]
      l1 == locator + located
      f1 == IF deeper = 0 THEN frames
            ELSE [frames EXCEPT ![Top].len = @ + 1, ![Top].pend = @ + 1]
  IN /\ Len(t1.delayed) < MaxSink
     /\ t1.values <= MaxCount
     /\ l1 <= MaxCount
     /\ deeper = 1 => Top > 0 /\ Pending(frames, Top) < MaxPend
     /\ tracer' = DelayedTracer(t1, res)
     /\ locator' = l1
     /\ frames' = f1
     /\ ret' = [op |-> "delayed", res |-> res, value |-> DelayedValue(res),
                tracer |-> t1, locator |-> l1, frames |-> f1]
     /\ UNCHANGED running


\* ------------------------------------------- within, one access at a time
\* Several callers hold handles into the same chain and call within at the
\* same time.  running[p] is the call of caller p: the frame and the limit it
\* was made with, the answer the whole call gives when nothing else runs
\* (alone), the activations of the recursion (innermost last, each with its
\* frame, its budget and where it stands) and the value the activation that
\* returned last gave back.  A step is one read or one write of an upper cell
\* together with the work on locals and immutable fields around it.
Quiet == \A p \in Procs : running[p].st = "idle"

\* the activation on top returns v to its caller, or to the outside
Return(r, v) ==
  [r EXCEPT !.stack = SubSeq(@, 1, Len(@) - 1),
            !.val = v,
            !.st = IF Len(r.stack) = 1 THEN "done" ELSE "run"]

Begin(p, f, depth) ==
  /\ running[p].st = "idle"
  /\ f \in Handles
  /\ running' = [running EXCEPT ![p] =
       [st |-> "run", f |-> f, depth |-> depth,
        alone |-> within(frames, f, depth).ret,
        stack |-> <<[f |-> f, depth |-> depth, pc |-> "enter"]>>,
        val |-> FALSE]]
  /\ ret' = NoRet
  /\ UNCHANGED <<frames, tracer, locator>>

\* lines 137-144: the read of upper for the fast accept, then the match up
\* to the call on the parent
Enter(p) ==
  /\ running[p].st = "run"
  /\ LET r == running[p]
         a == r.stack[Len(r.stack)]
         me == frames[a.f]
     IN /\ a.pc = "enter"
        /\ running' = [running EXCEPT ![p] =
             IF FastAccept(me.upper, me.len, a.depth) THEN Return(r, TRUE)
             ELSE IF me.outer = 0 THEN Return(r, NoOuter(me.len, a.depth))
             ELSE IF FastReject(me.len, a.depth) THEN Return(r, FALSE)
             ELSE [r EXCEPT !.stack =
                     Append([@ EXCEPT ![Len(@)].pc = "test"],
                            [f |-> me.outer,
                             depth |-> OuterDepth(me.len, a.depth),
                             pc |-> "enter"])]]
  /\ ret' = NoRet
  /\ UNCHANGED <<frames, tracer, locator>>

\* line 145: the parent has answered; the read of upper for the comparison
Test(p) ==
  /\ running[p].st = "run"
  /\ LET r == running[p]
         a == r.stack[Len(r.stack)]
     IN /\ a.pc = "test"
        /\ running' = [running EXCEPT ![p] =
             IF Tighten(r.val, frames[a.f].upper, a.depth)
             THEN [r EXCEPT !.stack[Len(r.stack)].pc = "set"]
             ELSE Return(r, r.val)]
  /\ ret' = NoRet
  /\ UNCHANGED <<frames, tracer, locator>>

\* line 146: the write of upper, then the return of line 148
Set(p) ==
  /\ running[p].st = "run"
  /\ LET r == running[p]
         a == r.stack[Len(r.stack)]
     IN /\ a.pc = "set"
        /\ frames' = [frames EXCEPT ![a.f].upper =
                        Tightened(frames[a.f].len, a.depth)]
        /\ running' = [running EXCEPT ![p] = Return(r, r.val)]
  /\ ret' = NoRet
  /\ UNCHANGED <<tracer, locator>>

\* the caller takes the answer
End(p) ==
  /\ running[p].st = "done"
  /\ running' = [running EXCEPT ![p] = Idle]
  /\ ret' = NoRet
  /\ UNCHANGED <<frames, tracer, locator>>

\* ------------------------------------------------------ specifications
\* Spec: one file id, paired increase/decrease.
Next ==
  \/ Root(MaxFrames)
  \/ \E id \in FileIds : Insert(Top, id, MaxFrames)
  \/ Extend(Top, MaxFrames)
  \/ \E f \in Handles : Drop(f)
  \/ \E f \in Handles : Track(f)
  \/ \E f \in Handles : Increase(f)
  \/ \E f \in Handles : DecreasePaired(f)
  \/ \E f \in Handles, id \in FileIds : Contains(f, id)
  \/ \E f \in Handles, d \in Limits : Within(f, d)
  \/ \E f \in Handles : Exceeding(f)

Spec == Init /\ [][Next]_vars

\* SpecFree: decrease is taken whenever it does not underflow, so a frame
\* built by extend can come down to len = 0.
NextFree ==
  \/ Root(MaxFrames)
  \/ \E id \in FileIds : Insert(Top, id, MaxFrames)
  \/ Extend(Top, MaxFrames)
  \/ \E f \in Handles : Drop(f)
  \/ \E f \in Handles : Track(f)
  \/ \E f \in Handles : Increase(f)
  \/ \E f \in Handles : Decrease(f)
  \/ \E f \in Handles, d \in Limits : Within(f, d)

SpecFree == Init /\ [][NextFree]_vars

\* SpecIds: two file ids and contains.
NextIds ==
  \/ Root(MaxIdFrames)
  \/ \E id \in IdFileIds : Insert(Top, id, MaxIdFrames)
  \/ Extend(Top, MaxIdFrames)
  \/ \E f \in Handles : Drop(f)
  \/ \E f \in Handles : Increase(f)
  \/ \E f \in Handles : DecreasePaired(f)
  \/ \E f \in Handles, id \in IdFileIds : Contains(f, id)
  \/ \E f \in Handles, d \in IdLimits : Within(f, d)

SpecIds == Init /\ [][NextIds]_vars

\* SpecDeep: a root and nested extend() frames, up to MaxDeep frames.
NextDeep ==
  \/ Top = 0 /\ Root(MaxDeep)
  \/ Extend(Top, MaxDeep)
  \/ \E f \in Handles : Exceeding(f)

SpecDeep == Init /\ [][NextDeep]_vars

\* SpecEngine: delayed on an engine whose route is a root.
NextEngine ==
  \/ Root(MaxCount)
  \/ \E nested \in {<< >>} \cup {<<e>> : e \in Batches}, sampled \in 0..1,
        located \in 0..1, deeper \in 0..1, res \in StepResults :
       Delayed(nested, sampled, located, deeper, res)

SpecEngine == Init /\ [][NextEngine]_vars

\* SpecConc: a chain is built and its frames' len raised while no call runs
\* (increase takes &mut self); within calls of several callers then run one
\* access at a time.
NextConc ==
  \/ Quiet /\ Top = 0 /\ Root(MaxConcFrames)
  \/ Quiet /\ \E id \in FileIds : Insert(Top, id, MaxConcFrames)
  \/ Quiet /\ Extend(Top, MaxConcFrames)
  \/ Quiet /\ \E f \in Handles : Increase(f)
  \/ \E p \in Procs, f \in Handles, d \in ConcLimits : Begin(p, f, d)
  \/ \E p \in Procs : Enter(p)
  \/ \E p \in Procs : Test(p)
  \/ \E p \in Procs : Set(p)
  \/ \E p \in Procs : End(p)

SpecConc == Init /\ [][NextConc]_vars

\* ------------------------------------------------------------ reference
\* The frames from f to the root, f first.
RECURSIVE Path(_, _)
Path(fr, f) ==
  IF fr[f].outer = 0 THEN <<f>> ELSE <<f>> \o Path(fr, fr[f].outer)

OnPath(fr, f) == {Path(fr, f)[i] : i \in 1..Len(Path(fr, f))}

\* The sum of len over the frames from f to the root.
RECURSIVE Depth(_, _)
Depth(fr, f) ==
  fr[f].len + (IF fr[f].outer = 0 THEN 0 ELSE Depth(fr, fr[f].outer))

\* The sum of len over the frames strictly above f.
Above(fr, f) == IF fr[f].outer = 0 THEN 0 ELSE Depth(fr, fr[f].outer)

\* The frames with every upper cell as its constructor set it.
Fresh(fr) ==
  [g \in DOMAIN fr |->
     [fr[g] EXCEPT !.upper = IF fr[g].outer = 0 THEN 0 ELSE USIZE_MAX]]

\* The len a frame is constructed with.
Created(kind) == IF kind = "extend" THEN extend(0, 0).len ELSE insert(0, NoId, 0).len

\* The fields of a Route value.
Fields(r) == [outer |-> r.outer, id |-> r.id, len |-> r.len, upper |-> r.upper]

\* A frame with a parent, no identity and len = 0.
NoOpLink(fr, f) == fr[f].outer # 0 /\ fr[f].id = NoId /\ fr[f].len = 0

\* --------------------------------------------------------------- claims

\* C1: in every reachable state, within(limit) on any frame returns true
\* exactly when the sum of len over the frames from that frame to the root
\* is <= limit, a parentless frame with raised len included.
C1_WithinIsDepth ==
  \A f \in Handles, d \in Limits :
    within(frames, f, d).ret = (Depth(frames, f) <= d)

\* C2: the answer of within(limit) is the same on the chain as it is and on
\* the chain with every upper cell freshly constructed, and asking the same
\* query again right away gives the same answer.
C2_CacheTransparent ==
  \A f \in Handles, d \in Limits \cup {MAX_DEPTH} :
    /\ within(frames, f, d).ret = within(Fresh(frames), f, d).ret
    /\ within(within(frames, f, d).fr, f, d).ret = within(frames, f, d).ret

C2_Witness ==
  \E f \in Handles, g \in Handles, d \in Limits :
    /\ frames[f].outer = g /\ frames[g].outer # 0
    /\ frames[g].upper < USIZE_MAX /\ frames[f].upper < USIZE_MAX
    /\ ~within(frames, f, d).ret
    /\ within(frames, f, d + 1).ret

\* C3: within is monotonic in its argument, in whichever order the two
\* queries are asked: for d <= d', within(d) true implies within(d') true.
C3_Monotonic ==
  \A f \in Handles, d \in Limits, e \in Limits :
    d < e =>
      /\ within(frames, f, d).ret => within(within(frames, f, d).fr, f, e).ret
      /\ within(within(frames, f, e).fr, f, d).ret => within(frames, f, e).ret

C3_Witness ==
  \E f \in Handles :
    /\ frames[f].outer # 0 /\ frames[f].upper < USIZE_MAX
    /\ ~within(frames, f, 1).ret
    /\ within(frames, f, 2).ret /\ within(frames, f, USIZE_MAX).ret

\* C4: contains(x) on a frame is true exactly when a frame on the path from
\* it to the root was built by insert with identity x, and increase, decrease
\* and within never change the answer.
C4_Step ==
  /\ \A f \in Handles, x \in IdFileIds \cup {"C"} :
       contains(frames, f, x) =
         (\E g \in OnPath(frames, f) :
            frames[g].kind = "insert" /\ frames[g].id = x)
  /\ Len(frames') = Len(frames) =>
       \A f \in Handles, x \in IdFileIds \cup {"C"} :
         contains(frames', f, x) = contains(frames, f, x)

\* C4, over every step: contains is membership among the insert-built
\* frames of the path, before and after.
C4_Contains == [][C4_Step]_vars

C4_Witness ==
  /\ Len(frames) = 3
  /\ frames[2].outer = 1 /\ frames[3].outer = 2
  /\ frames[2].id = "A" /\ frames[3].kind = "extend"
  /\ frames[3].len = 2 /\ frames[3].upper < USIZE_MAX
  /\ contains(frames, 3, "A")
  /\ ~contains(frames, 3, "B") /\ ~contains(frames, 1, "A")

\* C5: track() on a frame with a parent, no identity and len = 0 returns the
\* very handle the parent's own track() returns; on every other frame it
\* returns the handle of the frame itself.
C5_Track ==
  \A f \in Handles :
    IF NoOpLink(frames, f)
    THEN track(frames, f) = track(frames, frames[f].outer)
    ELSE track(frames, f) = f

C5_Witness ==
  \E f \in Handles, g \in Handles :
    /\ NoOpLink(frames, f)
    /\ frames[g].src = f /\ frames[g].outer = frames[f].outer
    /\ track(frames, f) # f

\* C6: delayed returns the step's value and appends nothing when the step
\* succeeds; when the step fails with batch e it returns the default value
\* and the deferred bucket gains exactly the batch e after what the step
\* recorded; nothing else of the context changes.
C6_Delayed ==
  ret.op = "delayed" =>
    /\ ret.res.ok =>
         ret.value = ret.res.value /\ tracer.delayed = ret.tracer.delayed
    /\ ~ret.res.ok =>
         /\ ret.value = Default
         /\ tracer.delayed = Append(ret.tracer.delayed, ret.res.errors)
    /\ ret.value \in Values \cup {Default}
    /\ tracer.values = ret.tracer.values
    /\ locator = ret.locator
    /\ frames = ret.frames

C6_Witness ==
  /\ ret.op = "delayed" /\ ~ret.res.ok
  /\ Len(ret.tracer.delayed) = 2 /\ Len(tracer.delayed) = 3
  /\ tracer.delayed[3] = "e2" /\ tracer.delayed[2] = "e1"
  /\ ret.value = Default

\* C7: exceeding() is the negation of within(64), and on a root followed by
\* n nested extend() frames it is true exactly when n > 64.
C7_Exceeding ==
  \A f \in Handles :
    /\ exceeding(frames, f).ret = ~within(frames, f, MAX_DEPTH).ret
    /\ exceeding(frames, f).ret = (f - 1 > 64)

C7_Witness ==
  /\ Len(frames) = 66
  /\ exceeding(frames, 66).ret
  /\ ~exceeding(frames, 65).ret /\ ~exceeding(frames, 1).ret
  /\ frames[65].upper = MAX_DEPTH

\* C8: every frame whose upper holds a value u other than unknown has a
\* true depth of the frames strictly above it that is <= u.
C8_UpperSound ==
  \A f \in Handles :
    frames[f].upper # USIZE_MAX => Above(frames, f) <= frames[f].upper

\* C9: no step makes a frame's upper larger or unknown again, and a step
\* that writes it is a within call on a frame below or at it, in which the
\* parent of the written frame answered true for the budget handed to it
\* and the written value is the budget of the call on the written frame,
\* strictly smaller than the value it replaces.
C9_Step ==
  \A f \in Handles :
    f <= Len(frames') =>
      /\ frames'[f].upper <= frames[f].upper
      /\ frames'[f].upper # frames[f].upper =>
           \E g \in Handles, d \in Limits \cup {MAX_DEPTH} :
             /\ frames' = within(frames, g, d).fr
             /\ \E i \in 1..Len(calls(frames, g, d)) :
                  LET c == calls(frames, g, d)[i]
                  IN /\ c.f = f
                     /\ frames[f].outer # 0
                     /\ c.depth >= frames[f].len
                     /\ within(frames, frames[f].outer,
                               c.depth - frames[f].len).ret
                     /\ c.depth < frames[f].upper
                     /\ frames'[f].upper = c.depth

\* C9, over every step: upper cells only shrink, and only inside within.
C9_UpperNeverGrows == [][C9_Step]_vars

C9_Witness ==
  \E f \in Handles :
    /\ frames[f].outer # 0
    /\ frames[f].upper = 1
    /\ frames[f].len = 2
    /\ Len(frames) = 3 /\ f = 2

C11_Step ==
  Len(frames') = Len(frames) + 1 =>
    /\ \A p \in Handles, d \in Limits \cup {MAX_DEPTH} :
         /\ \A x \in FileIds :
              within(Append(frames, insert(p, x, p)), Len(frames) + 1, d).ret
                = within(frames, p, d).ret
         /\ within(Append(frames, extend(p, p)), Len(frames) + 1, d).ret
              = (d >= 1 /\ within(frames, p, d - 1).ret)
    /\ \A g \in Handles : frames'[g] = frames[g]
    /\ LET n == frames'[Len(frames')]
       IN \A d \in Limits \cup {MAX_DEPTH} :
            n.outer # 0 =>
              within(frames', Len(frames'), d).ret
                = (d >= n.len /\ within(frames, n.outer, d - n.len).ret)

\* C11, over every step: the constructors add 0 (insert) and 1 (extend) to
\* what the parent answers, and write nothing.
C11_Constructors == [][C11_Step]_vars

C11_Witness ==
  \E f \in Handles :
    /\ f = Len(frames) /\ frames[f].kind = "extend"
    /\ frames[f].upper = USIZE_MAX /\ frames[f].len = 1
    /\ frames[f].outer # 0 /\ frames[frames[f].outer].outer # 0
    /\ frames[frames[f].outer].upper = 1
    /\ within(frames, f, 2).ret /\ ~within(frames, f, 1).ret

\* C12: in every reachable state, a frame f with a parent p, no identity and
\* len = 0 answers every within(d) and every contains(x) as p does, whatever
\* the upper cells of f and p hold.
C12_NoOpLinkElided ==
  \A f \in Handles :
    NoOpLink(frames, f) =>
      /\ \A d \in Limits \cup {MAX_DEPTH} :
           within(frames, f, d).ret = within(frames, frames[f].outer, d).ret
      /\ \A x \in IdFileIds :
           contains(frames, f, x) = contains(frames, frames[f].outer, x)

C12_Witness ==
  \E f \in Handles :
    /\ NoOpLink(frames, f)
    /\ frames[f].upper = 2 /\ frames[frames[f].outer].upper = 1
    /\ ~within(frames, f, 0).ret /\ within(frames, f, 1).ret
    /\ contains(frames, f, "A")

\* C13: a within(limit) call that returns false leaves every frame, and so
\* the upper cell of every frame on the chain, exactly as it was, both when
\* the false is the fast reject and when it is the answer of an ancestor.
C13_NoWriteOnFalse ==
  \A f \in Handles, d \in Limits \cup {MAX_DEPTH} :
    ~within(frames, f, d).ret => within(frames, f, d).fr = frames

C13_Witness ==
  \E f \in Handles :
    /\ frames[f].outer # 0 /\ frames[frames[f].outer].outer # 0
    /\ frames[f].len = 1 /\ frames[f].upper = USIZE_MAX
    /\ ~within(frames, f, 0).ret /\ Len(calls(frames, f, 0)) = 1
    /\ ~within(frames, f, 1).ret /\ Len(calls(frames, f, 1)) = 2
    /\ within(frames, f, 2).ret /\ within(frames, f, 2).fr # frames

\* C14: with several within calls running at once on frames that share
\* ancestors, interleaved at the single reads and writes of upper, every call
\* returns the answer it gives when run alone, and in every reachable state
\* every upper cell that holds a value other than unknown is a bound on the
\* depth of the frames strictly above its frame.
C14_Concurrent ==
  /\ \A p \in Procs :
       running[p].st = "done" => running[p].val = running[p].alone
  /\ \A f \in Handles :
       frames[f].upper # USIZE_MAX => Above(frames, f) <= frames[f].upper

\* C15: with every decrease closing an open increase on the same frame, in
\* every reachable state a frame's len is its value at creation plus its open
\* pairs, so it is never below that value nor below zero, it is that value
\* when all pairs are closed, a decrease that closes a pair finds len > 0,
\* and every within call that goes on to the parent has limit >= len when it
\* subtracts.
C15_PairedUse ==
  /\ \A f \in Handles :
       /\ frames[f].len = Created(frames[f].kind) + frames[f].pend
       /\ frames[f].len >= Created(frames[f].kind) /\ frames[f].len >= 0
       /\ frames[f].pend = 0 => frames[f].len = Created(frames[f].kind)
       /\ frames[f].pend > 0 => frames[f].len > 0
  /\ \A f \in Handles, d \in Limits \cup {MAX_DEPTH} :
       LET cs == calls(frames, f, d)
       IN \A i \in 1..(Len(cs) - 1) :
            /\ cs[i].depth >= frames[cs[i].f].len
            /\ cs[i + 1].depth = cs[i].depth - frames[cs[i].f].len
            /\ cs[i + 1].depth >= 0

C15_Witness ==
  \E f \in Handles, g \in Handles :
    /\ frames[f].kind = "extend" /\ frames[f].pend = 1 /\ frames[f].len = 2
    /\ frames[f].upper = USIZE_MAX
    /\ frames[g].kind = "insert" /\ frames[g].pend = 0 /\ frames[g].len = 0
    /\ frames[f].outer = g
    /\ ~within(frames, f, 1).ret /\ Len(calls(frames, f, 1)) = 1
    /\ Len(calls(frames, f, USIZE_MAX)) = 1
    /\ Len(calls(frames, f, 2)) = 3 /\ calls(frames, f, 2)[2].depth = 0

\* C16: contains changes no field of any frame; within changes no len, id or
\* parent link, and writes upper only on frames of the path from the queried
\* frame to the root; a within call answered by the fast accept visits no
\* ancestor and writes nothing; increase and decrease change the len of the
\* frame they are called on by exactly +1 / -1 and nothing else of any frame.
C16_Step ==
  /\ \A f \in Handles, x \in IdFileIds :
       Contains(f, x) => frames' = frames
  /\ \A f \in Handles, d \in IdLimits :
       Within(f, d) =>
         /\ DOMAIN frames' = DOMAIN frames
         /\ \A g \in Handles :
              /\ frames'[g].len = frames[g].len
              /\ frames'[g].id = frames[g].id
              /\ frames'[g].outer = frames[g].outer
              /\ frames'[g].upper # frames[g].upper => g \in OnPath(frames, f)
         /\ FastAccept(frames[f].upper, frames[f].len, d) =>
              /\ within(frames, f, d).ret
              /\ within(frames, f, d).vis = <<f>>
              /\ frames' = frames
  /\ \A f \in Handles :
       /\ Increase(f) =>
            /\ frames'[f].len = frames[f].len + 1
            /\ Fields(frames'[f]) = [Fields(frames[f]) EXCEPT !.len = @ + 1]
            /\ \A g \in Handles \ {f} : frames'[g] = frames[g]
       /\ Decrease(f) =>
            /\ frames'[f].len = frames[f].len - 1
            /\ Fields(frames'[f]) = [Fields(frames[f]) EXCEPT !.len = @ - 1]
            /\ \A g \in Handles \ {f} : frames'[g] = frames[g]

\* C16, over every step: the frame conditions of contains, within, increase
\* and decrease.
C16_FrameConditions == [][C16_Step]_vars

C16_Witness ==
  \E f \in Handles, g \in Handles :
    /\ frames[f].kind = "insert" /\ frames[f].upper = 0
    /\ frames[f].len = 1 /\ frames[f].pend = 1
    /\ within(frames, f, 1).vis = <<f>> /\ within(frames, f, 1).fr = frames
    /\ frames[g].outer = 0 /\ g # f /\ g \in OnPath(frames, f)
    /\ within(frames, f, 0).vis = <<f>> /\ ~within(frames, f, 0).ret

\* C17: in every reachable state the parent of a frame is a strictly older
\* frame, so the parent relation has no cycle; and every within and contains
\* call visits a finite run of frames that starts at the queried frame, steps
\* from a frame to its parent only, and so visits each frame of the path to
\* the root at most once and no frame off that path.
C17_Terminates ==
  /\ \A f \in Handles :
       /\ frames[f].outer \in 0..(f - 1)
       /\ Len(Path(frames, f)) <= f
  /\ \A f \in Handles, d \in Limits \cup {MAX_DEPTH} :
       LET vis == within(frames, f, d).vis
           path == Path(frames, f)
       IN /\ Len(vis) >= 1 /\ Len(vis) <= Len(path)
          /\ \A i \in 1..Len(vis) : vis[i] = path[i]
          /\ \A i \in 1..(Len(vis) - 1) : vis[i + 1] = frames[vis[i]].outer
          /\ \A i \in 1..Len(vis), j \in 1..Len(vis) :
               vis[i] = vis[j] => i = j
  /\ \A f \in Handles, x \in IdFileIds \cup {"C"} :
       LET vis == lookups(frames, f, x)
           path == Path(frames, f)
       IN /\ Len(vis) >= 1 /\ Len(vis) <= Len(path)
          /\ \A i \in 1..Len(vis) : vis[i] = path[i]
          /\ \A i \in 1..(Len(vis) - 1) : vis[i + 1] = frames[vis[i]].outer
          /\ \A i \in 1..Len(vis), j \in 1..Len(vis) :
               vis[i] = vis[j] => i = j
          /\ contains(frames, f, x) = (frames[vis[Len(vis)]].id = x)

C17_Witness ==
  /\ Len(frames) = 3
  /\ frames[2].id = "A" /\ frames[3].outer = 2 /\ frames[2].outer = 1
  /\ within(frames, 3, 1).vis = <<3, 2, 1>>
  /\ within(frames, 2, 1).vis = <<2, 1>>
  /\ within(frames, 3, 0).vis = <<3>>
  /\ lookups(frames, 3, "A") = <<3, 2>>
  /\ lookups(frames, 3, "B") = <<3, 2, 1>>

\* C18 as stated: a frame whose upper is still unknown never takes the fast
\* accept for a limit below 2^w - 1, whatever its len, and its answer for
\* such a limit is always obtained from its parent.
C18_AlwaysFromParent ==
  \A f \in Handles, d \in (0..MaxLimit) \cup {MAX_DEPTH} :
    frames[f].upper = USIZE_MAX =>
      /\ ~FastAccept(frames[f].upper, frames[f].len, d)
      /\ frames[f].outer # 0
      /\ Len(within(frames, f, d).vis) >= 2
      /\ within(frames, f, d).vis[2] = frames[f].outer

\* C18: upper + len is a saturating sum and never wraps; a frame whose upper
\* is still unknown never takes the fast accept for a limit below 2^w - 1,
\* whatever its len; its answer for such a limit is false without a call on
\* the parent when limit < len, and otherwise is the answer of its parent
\* for limit - len.
C18_SaturatingAdd ==
  /\ \A f \in Handles :
       /\ saturating_add(frames[f].upper, frames[f].len) \in 0..USIZE_MAX
       /\ saturating_add(frames[f].upper, frames[f].len) >= frames[f].upper
       /\ saturating_add(frames[f].upper, frames[f].len) >= frames[f].len
  /\ \A f \in Handles, d \in (0..MaxLimit) \cup {MAX_DEPTH} :
       frames[f].upper = USIZE_MAX =>
         /\ saturating_add(frames[f].upper, frames[f].len) = USIZE_MAX
         /\ ~FastAccept(frames[f].upper, frames[f].len, d)
         /\ frames[f].outer # 0
         /\ IF d < frames[f].len
            THEN /\ ~within(frames, f, d).ret
                 /\ within(frames, f, d).vis = <<f>>
            ELSE /\ Len(within(frames, f, d).vis) >= 2
                 /\ within(frames, f, d).vis[2] = frames[f].outer
                 /\ within(frames, f, d).ret
                      = within(frames, frames[f].outer,
                               d - frames[f].len).ret

C18_Witness ==
  \E f \in Handles :
    /\ frames[f].upper = USIZE_MAX /\ frames[f].len = 2
    /\ frames[f].outer # 0 /\ frames[frames[f].outer].upper = 0
    /\ frames[frames[f].outer].outer # 0
    /\ within(frames, f, 2).ret /\ within(frames, f, 2).vis[2] = frames[f].outer
    /\ ~within(frames, f, 1).ret /\ within(frames, f, 1).vis = <<f>>
    /\ wrapping_add(frames[f].upper, frames[f].len) = 1

====
